---- MODULE Spec2Model ----
(***************************************************************************)
(* A model of fst_lookup.parse_text (src/fst_lookup/__init__.py): the      *)
(* line-oriented parser of foma's AT&T-style text format.  One step of the *)
(* model is one iteration of the loop over fst_text.splitlines(); a last   *)
(* step is the code that follows the loop.  Lines are sequences of         *)
(* one-character strings, so that startswith, slicing, split() and int()   *)
(* are computed on the text as Python computes them.                       *)
(***************************************************************************)
EXTENDS Integers, Sequences, FiniteSets, TLC

\* The number of input lines one parse reads (the input is unbounded in the code).
MaxLines == 6

\* ParserState
INITIAL == 0
PROPS == 1
SIGMA == 2
ARC == 3
END == 4

\* Optional values: Python's None and a present value.
None == << >>
Some(x) == <<x>>

-----------------------------------------------------------------------------
(* The texts that occur in the input. *)

Hashes == <<"#", "#">>
PayloadFoma == <<"f", "o", "m", "a", "-", "n", "e", "t", " ", "1", ".", "0">>
PayloadProps == <<"p", "r", "o", "p", "s">>
PayloadSigma == <<"s", "i", "g", "m", "a">>
PayloadStates == <<"s", "t", "a", "t", "e", "s">>
PayloadEnd == <<"e", "n", "d">>

HeaderFoma == Hashes \o PayloadFoma \o Hashes
HeaderProps == Hashes \o PayloadProps \o Hashes
HeaderSigma == Hashes \o PayloadSigma \o Hashes
HeaderStates == Hashes \o PayloadStates \o Hashes
HeaderEnd == Hashes \o PayloadEnd \o Hashes

SentinelLine == <<"-", "1", " ", "-", "1", " ", "-", "1", " ", "-", "1", " ", "-", "1">>

\* The lines an input is made of: the five headers, an unknown header, two
\* lines that begin with ## and do not end with it, symbol lines, transition
\* lines of every arity from 0 (a blank line) to 6, and a line of two
\* non-integers.
Lines ==
    { HeaderFoma, HeaderProps, HeaderSigma, HeaderStates, HeaderEnd,
      <<"#", "#", "x", "#", "#">>,
      <<"#", "#", "e", "n", "d", "z", "z">>,
      <<"#", "#", "x">>,
      <<"0", " ", "e">>,
      <<"0", " ", "a", "b">>,
      <<"1", " ", "a">>,
      <<"1", " ", "b", "c">>,
      <<"2", " ", "a">>,
      <<"1", " ", "2">>,
      <<"1", " ", "2", " ", "0">>,
      <<"0", " ", "1", " ", "2", " ", "0">>,
      <<"2", " ", "-", "1", " ", "-", "1", " ", "0">>,
      <<"1", " ", "-", "1", " ", "2", " ", "0">>,
      <<"0", " ", "1", " ", "2", " ", "3", " ", "0", " ", "0">>,
      <<"0", " ", "1", " ", "2", " ", "3", " ", "0">>,
      <<"1", " ", "2", " ", "1", " ", "0", " ", "0">>,
      SentinelLine,
      << >>,
      <<"x", " ", "y">>,
      <<"7">> }

-----------------------------------------------------------------------------
(* Python's str and int operations, as far as parse_text uses them. *)

\* str.startswith
startswith(s, p) == Len(s) >= Len(p) /\ SubSeq(s, 1, Len(p)) = p

\* str.endswith
endswith(s, p) == Len(s) >= Len(p) /\ SubSeq(s, Len(s) - Len(p) + 1, Len(s)) = p

\* line[2:-2]: the characters from index 2 up to, not including, the last two.
slice_2_m2(s) == SubSeq(s, 3, Len(s) - 2)

Whitespace == {" ", "\t"}

RECURSIVE split_from(_, _, _, _)
split_from(s, i, cur, acc) ==
    IF i > Len(s)
    THEN IF cur = << >> THEN acc ELSE Append(acc, cur)
    ELSE IF s[i] \in Whitespace
         THEN split_from(s, i + 1, << >>, IF cur = << >> THEN acc ELSE Append(acc, cur))
         ELSE split_from(s, i + 1, Append(cur, s[i]), acc)

\* str.split() with no argument: the maximal runs of non-whitespace.
split(s) == split_from(s, 1, << >>, << >>)

Digits == {"0", "1", "2", "3", "4", "5", "6", "7", "8", "9"}

DigitValue(c) ==
    CASE c = "0" -> 0 [] c = "1" -> 1 [] c = "2" -> 2 [] c = "3" -> 3
      [] c = "4" -> 4 [] c = "5" -> 5 [] c = "6" -> 6 [] c = "7" -> 7
      [] c = "8" -> 8 [] c = "9" -> 9

Unsigned(tok) == IF tok # << >> /\ tok[1] \in {"+", "-"} THEN Tail(tok) ELSE tok

\* Whether int(tok) returns: an optional sign, then digits, single
\* underscores allowed between digits.
int_ok(tok) ==
    LET body == Unsigned(tok)
    IN  /\ body # << >>
        /\ body[1] \in Digits
        /\ body[Len(body)] \in Digits
        /\ \A i \in 1..Len(body) :
              /\ body[i] \in Digits \cup {"_"}
              /\ (body[i] = "_" /\ i < Len(body)) => body[i + 1] # "_"

RECURSIVE digits_value(_, _, _)
digits_value(body, i, acc) ==
    IF i > Len(body) THEN acc
    ELSE IF body[i] = "_" THEN digits_value(body, i + 1, acc)
         ELSE digits_value(body, i + 1, 10 * acc + DigitValue(body[i]))

\* int(tok), where it returns.
int(tok) ==
    LET v == digits_value(Unsigned(tok), 1, 0)
    IN  IF tok[1] = "-" THEN 0 - v ELSE v

-----------------------------------------------------------------------------
(* Dictionaries are functions; the empty dictionary is the empty function. *)

EmptyDict == [k \in {} |-> << >>]


\* A variant of dict_set: an idx already bound keeps its symbol (setdefault).
dict_set_keeps_first(d, idx, symbol) ==
    [k \in DOMAIN d \cup {idx} |-> IF k \in DOMAIN d THEN d[k] ELSE symbol]

\* sigma[idx] = symbol
dict_set(d, idx, symbol) ==
    [k \in DOMAIN d \cup {idx} |-> IF k = idx THEN symbol ELSE d[k]]

\* del sigma[0], where the key is present
dict_del(d, idx) == [k \in DOMAIN d \ {idx} |-> d[k]]

\* {**a, **b}: b's entries over a's
dict_merge(a, b) ==
    [k \in DOMAIN a \cup DOMAIN b |-> IF k \in DOMAIN b THEN b[k] ELSE a[k]]

\* set(arcs)
set(seq) == {seq[i] : i \in 1..Len(seq)}

-----------------------------------------------------------------------------
(* The data model. *)

\* namedtuple('ArcBase', 'state in_label out_label destination'): the
\* constructor takes the fields by position, in this order.
Arc(a, b, c, d) == [state |-> a, in_label |-> b, out_label |-> c, destination |-> d]

\* namedtuple('FSTParse', ...), built by keyword
FSTParse(mc, gr, as, is, acc) ==
    [multichar_symbols |-> mc, graphemes |-> gr, arcs |-> as,
     intermediate_states |-> is, accepting_states |-> acc]

\* FSTParse.sigma
FSTParse_sigma(p) == dict_merge(p.multichar_symbols, p.graphemes)

\* A variant of FSTParse_states: the accepting states are left out.
FSTParse_states_of_arcs_only(p) == p.intermediate_states

\* FSTParse.states
FSTParse_states(p) == p.intermediate_states \cup p.accepting_states

-----------------------------------------------------------------------------
(* parse_text.  Its locals are the variables; st below is the record of    *)
(* the locals a step may change, with exc the exception raised, if any.    *)

VARIABLES
    state,             \* the ParserState
    sigma,             \* idx -> symbol
    arcs,              \* the list of Arc
    accepting_states,  \* the set of accepting states
    implied_state,     \* None or Some(state)
    line,              \* the loop variable: the line read last
    n,                 \* how many lines were read
    pc,                \* "loop", "returned" or "raised"
    exception,         \* the exception raised, "" if none
    result,            \* None or Some(the FSTParse returned)
    obs                \* what the input read so far was (see Observe)

vars == <<state, sigma, arcs, accepting_states, implied_state, line, n, pc,
          exception, result, obs>>

Raise(st, e) == [st EXCEPT !.exc = e]

Sentinel == <<-1, -1, -1, -1, -1>>

\* The unpacking of arc_def in the branch its length selects, for a length
\* in 2..5 (and, for 2 and 3, an implied state that is set).
Unpack(arc_def, implied) ==
    CASE Len(arc_def) = 2 ->
           [src |-> implied[1], in_label |-> arc_def[1],
            out_label |-> arc_def[1], dest |-> arc_def[2]]
      [] Len(arc_def) = 3 ->
           [src |-> implied[1], in_label |-> arc_def[1],
            out_label |-> arc_def[2], dest |-> arc_def[3]]
      [] Len(arc_def) = 4 ->
           [src |-> arc_def[1], in_label |-> arc_def[2],
            out_label |-> arc_def[2], dest |-> arc_def[3]]
      [] Len(arc_def) = 5 ->
           [src |-> arc_def[1], in_label |-> arc_def[2],
            out_label |-> arc_def[3], dest |-> arc_def[4]]

\* A variant of parse_arc: a 2- or 3-field record met with no implied state
\* takes state 0 as its source.
parse_arc_default_src(arc_def, st) ==
    IF arc_def = Sentinel
    THEN st
    ELSE IF Len(arc_def) = 4 /\ (arc_def[2] = -1 \/ arc_def[3] = -1)
    THEN [st EXCEPT !.accepting_states = @ \cup {arc_def[1]}]
    ELSE IF Len(arc_def) \notin 2..5
    THEN Raise(st, "UnboundLocalError: src")
    ELSE LET f == Unpack(arc_def, IF st.implied_state = None THEN Some(0)
                                  ELSE st.implied_state)
         IN  [st EXCEPT !.implied_state = Some(f.src),
                        !.arcs = Append(@, Arc(f.src, f.dest, f.in_label, f.out_label))]

\* A variant of parse_arc: an accepting-state record sets the implied state too.
parse_arc_marker_implies(arc_def, st) ==
    IF arc_def = Sentinel
    THEN st
    ELSE IF Len(arc_def) \in {2, 3} /\ st.implied_state = None
    THEN Raise(st, "ValueError: No implied state")
    ELSE IF Len(arc_def) = 4 /\ (arc_def[2] = -1 \/ arc_def[3] = -1)
    THEN [st EXCEPT !.accepting_states = @ \cup {arc_def[1]},
                    !.implied_state = Some(arc_def[1])]
    ELSE IF Len(arc_def) \notin 2..5
    THEN Raise(st, "UnboundLocalError: src")
    ELSE LET f == Unpack(arc_def, st.implied_state)
         IN  [st EXCEPT !.implied_state = Some(f.src),
                        !.arcs = Append(@, Arc(f.src, f.dest, f.in_label, f.out_label))]

\* A variant of parse_arc: the sentinel forgets the implied state.
parse_arc_sentinel_resets(arc_def, st) ==
    IF arc_def = Sentinel
    THEN [st EXCEPT !.implied_state = None]
    ELSE IF Len(arc_def) \in {2, 3} /\ st.implied_state = None
    THEN Raise(st, "ValueError: No implied state")
    ELSE IF Len(arc_def) = 4 /\ (arc_def[2] = -1 \/ arc_def[3] = -1)
    THEN [st EXCEPT !.accepting_states = @ \cup {arc_def[1]}]
    ELSE IF Len(arc_def) \notin 2..5
    THEN Raise(st, "UnboundLocalError: src")
    ELSE LET f == Unpack(arc_def, st.implied_state)
         IN  [st EXCEPT !.implied_state = Some(f.src),
                        !.arcs = Append(@, Arc(f.src, f.dest, f.in_label, f.out_label))]

\* A variant of parse_arc: a record of no known length is skipped.
parse_arc_skips_other_lengths(arc_def, st) ==
    IF arc_def = Sentinel
    THEN st
    ELSE IF Len(arc_def) \in {2, 3} /\ st.implied_state = None
    THEN Raise(st, "ValueError: No implied state")
    ELSE IF Len(arc_def) = 4 /\ (arc_def[2] = -1 \/ arc_def[3] = -1)
    THEN [st EXCEPT !.accepting_states = @ \cup {arc_def[1]}]
    ELSE IF Len(arc_def) \notin 2..5
    THEN st
    ELSE LET f == Unpack(arc_def, st.implied_state)
         IN  [st EXCEPT !.implied_state = Some(f.src),
                        !.arcs = Append(@, Arc(f.src, f.dest, f.in_label, f.out_label))]

\* A variant of parse_arc: only a record with label and dest both -1 marks an
\* accepting state.
parse_arc_marker_needs_both(arc_def, st) ==
    IF arc_def = Sentinel
    THEN st
    ELSE IF Len(arc_def) \in {2, 3} /\ st.implied_state = None
    THEN Raise(st, "ValueError: No implied state")
    ELSE IF Len(arc_def) = 4 /\ (arc_def[2] = -1 /\ arc_def[3] = -1)
    THEN [st EXCEPT !.accepting_states = @ \cup {arc_def[1]}]
    ELSE IF Len(arc_def) \notin 2..5
    THEN Raise(st, "UnboundLocalError: src")
    ELSE LET f == Unpack(arc_def, st.implied_state)
         IN  [st EXCEPT !.implied_state = Some(f.src),
                        !.arcs = Append(@, Arc(f.src, f.dest, f.in_label, f.out_label))]

\* parse_arc(arc_def)
parse_arc(arc_def, st) ==
    IF arc_def = Sentinel
    THEN st
    ELSE IF Len(arc_def) \in {2, 3} /\ st.implied_state = None
    THEN Raise(st, "ValueError: No implied state")
    ELSE IF Len(arc_def) = 4 /\ (arc_def[2] = -1 \/ arc_def[3] = -1)
    THEN [st EXCEPT !.accepting_states = @ \cup {arc_def[1]}]
    ELSE IF Len(arc_def) \notin 2..5
    THEN \* no branch binds src, and line 112 reads it
         Raise(st, "UnboundLocalError: src")
    ELSE LET f == Unpack(arc_def, st.implied_state)
         IN  [st EXCEPT !.implied_state = Some(f.src),
                        !.arcs = Append(@, Arc(f.src, f.dest, f.in_label, f.out_label))]

\* The dictionary of line 127: the headers and their states.
header_dict ==
    [h \in {PayloadFoma, PayloadProps, PayloadSigma, PayloadStates, PayloadEnd} |->
        CASE h = PayloadFoma -> INITIAL
          [] h = PayloadProps -> PROPS
          [] h = PayloadSigma -> SIGMA
          [] h = PayloadStates -> ARC
          [] h = PayloadEnd -> END]

\* A variant of loop_body: a header that the dictionary does not have leaves
\* the state as it is.
loop_body_skips_unknown_header(ln, st) ==
    IF startswith(ln, Hashes)
    THEN LET header == slice_2_m2(ln)
         IN  IF header \in DOMAIN header_dict
             THEN [st EXCEPT !.state = header_dict[header]]
             ELSE st
    ELSE IF st.state = SIGMA
    THEN LET toks == split(ln)
         IN  IF Len(toks) # 2
             THEN Raise(st, "ValueError: unpack")
             ELSE IF ~int_ok(toks[1])
             THEN Raise(st, "ValueError: int")
             ELSE [st EXCEPT !.sigma = dict_set(@, int(toks[1]), toks[2])]
    ELSE IF st.state = ARC
    THEN LET toks == split(ln)
         IN  IF \E i \in 1..Len(toks) : ~int_ok(toks[i])
             THEN Raise(st, "ValueError: int")
             ELSE parse_arc([i \in 1..Len(toks) |-> int(toks[i])], st)
    ELSE IF st.state \in {INITIAL, PROPS, END}
    THEN st
    ELSE Raise(st, "ValueError: Invalid state")

\* A variant of loop_body: the header ##states## forgets the implied state.
loop_body_states_header_resets(ln, st) ==
    IF startswith(ln, Hashes)
    THEN LET header == slice_2_m2(ln)
         IN  IF header \in DOMAIN header_dict
             THEN [st EXCEPT !.state = header_dict[header],
                             !.implied_state = IF header = PayloadStates
                                               THEN None ELSE @]
             ELSE Raise(st, "KeyError: header")
    ELSE IF st.state = SIGMA
    THEN LET toks == split(ln)
         IN  IF Len(toks) # 2
             THEN Raise(st, "ValueError: unpack")
             ELSE IF ~int_ok(toks[1])
             THEN Raise(st, "ValueError: int")
             ELSE [st EXCEPT !.sigma = dict_set(@, int(toks[1]), toks[2])]
    ELSE IF st.state = ARC
    THEN LET toks == split(ln)
         IN  IF \E i \in 1..Len(toks) : ~int_ok(toks[i])
             THEN Raise(st, "ValueError: int")
             ELSE parse_arc([i \in 1..Len(toks) |-> int(toks[i])], st)
    ELSE IF st.state \in {INITIAL, PROPS, END}
    THEN st
    ELSE Raise(st, "ValueError: Invalid state")

\* One iteration of the loop over the lines, on line ln.
loop_body(ln, st) ==
    IF startswith(ln, Hashes)
    THEN LET header == slice_2_m2(ln)
         IN  IF header \in DOMAIN header_dict
             THEN [st EXCEPT !.state = header_dict[header]]
             ELSE Raise(st, "KeyError: header")
    ELSE IF st.state = SIGMA
    THEN LET toks == split(ln)
         IN  IF Len(toks) # 2
             THEN Raise(st, "ValueError: unpack")
             ELSE IF ~int_ok(toks[1])
             THEN Raise(st, "ValueError: int")
             ELSE [st EXCEPT !.sigma = dict_set(@, int(toks[1]), toks[2])]
    ELSE IF st.state = ARC
    THEN LET toks == split(ln)
         IN  IF \E i \in 1..Len(toks) : ~int_ok(toks[i])
             THEN Raise(st, "ValueError: int")
             ELSE parse_arc([i \in 1..Len(toks) |-> int(toks[i])], st)
    ELSE IF st.state \in {INITIAL, PROPS, END}
    THEN st
    ELSE Raise(st, "ValueError: Invalid state")

\* A variant of del_epsilon: epsilon is kept.
del_epsilon_keeps(d) == d

\* del sigma[0]
del_epsilon(d) == dict_del(d, 0)

\* A variant of multichar_symbols_of: a symbol of two characters is left out.
multichar_symbols_of_longer(d) ==
    [idx \in {k \in DOMAIN d : Len(d[k]) > 2} |-> d[idx]]

\* The dictionary comprehensions of lines 154-157.
multichar_symbols_of(d) ==
    [idx \in {k \in DOMAIN d : Len(d[k]) > 1} |-> d[idx]]

\* A variant of graphemes_of: every symbol counts as a grapheme.
graphemes_of_any_length(d) ==
    [idx \in {k \in DOMAIN d : Len(d[k]) >= 1} |-> d[idx]]

graphemes_of(d) ==
    [idx \in {k \in DOMAIN d : Len(d[k]) = 1} |-> d[idx]]

\* A variant of arc_states: the arcs' destinations are states too.
arc_states_with_destinations(as) ==
    {as[i].state : i \in 1..Len(as)} \cup {as[i].destination : i \in 1..Len(as)}

\* states = {arc.state for arc in arcs}
arc_states(as) == {as[i].state : i \in 1..Len(as)}


-----------------------------------------------------------------------------
(* What the input read so far was.  obs is no variable of the program: it  *)
(* records, from the text of each line read, the facts about the input     *)
(* that the properties below are stated over.                              *)

\* A header line: it begins with ## and ends with ##; its payload is the
\* text between the two.
IsHeaderLine(ln) == startswith(ln, Hashes) /\ endswith(ln, Hashes)
Payload(ln) == SubSeq(ln, 3, Len(ln) - 2)

\* The payloads of the fixed vocabulary.
Vocabulary == {PayloadFoma, PayloadProps, PayloadSigma, PayloadStates, PayloadEnd}

\* A symbol line: <int> <text>.
IsSymbolLine(ln) == Len(split(ln)) = 2 /\ int_ok(split(ln)[1])

\* The integers of a line of integers.
IsIntLine(ln) == \A i \in 1..Len(split(ln)) : int_ok(split(ln)[i])
Fields(ln) == [i \in 1..Len(split(ln)) |-> int(split(ln)[i])]

IsSentinelLine(ln) == IsIntLine(ln) /\ Fields(ln) = <<-1, -1, -1, -1, -1>>

\* A 4- or 5-field record that creates a transition.
IsFullTransition(ln) ==
    /\ IsIntLine(ln)
    /\ \/ Len(Fields(ln)) = 5 /\ ~IsSentinelLine(ln)
       \/ Len(Fields(ln)) = 4 /\ Fields(ln)[2] # -1 /\ Fields(ln)[3] # -1

\* A 2- or 3-field record.
IsShortTransition(ln) == IsIntLine(ln) /\ Len(Fields(ln)) \in {2, 3}

\* A 4-field record that marks an accepting state.
IsAcceptingMarker(ln) ==
    /\ IsIntLine(ln)
    /\ Len(Fields(ln)) = 4
    /\ (Fields(ln)[2] = -1 \/ Fields(ln)[3] = -1)

\* The input grammar: the headers foma-net 1.0, props, sigma, states, end in
\* this order; any non-header lines before the sigma section; symbol lines in
\* the sigma section; in the states section, records of 2 to 5 integers, a 2-
\* or 3-field record only after a 4- or 5-field record that creates a
\* transition; nothing after ##end##.  "bad" is an input that left the grammar.
GramNext(o, ln) ==
    IF o.gram = "bad" THEN "bad"
    ELSE IF IsHeaderLine(ln)
    THEN CASE o.gram = "start" /\ Payload(ln) = PayloadFoma -> "initial"
           [] o.gram = "initial" /\ Payload(ln) = PayloadProps -> "props"
           [] o.gram = "props" /\ Payload(ln) = PayloadSigma -> "sigma"
           [] o.gram = "sigma" /\ Payload(ln) = PayloadStates -> "states"
           [] o.gram = "states" /\ Payload(ln) = PayloadEnd -> "end"
           [] OTHER -> "bad"
    ELSE CASE o.gram \in {"start", "initial", "props"} -> o.gram
           [] o.gram = "sigma" -> IF IsSymbolLine(ln) THEN "sigma" ELSE "bad"
           [] o.gram = "states" ->
                IF /\ IsIntLine(ln)
                   /\ Len(Fields(ln)) \in 2..5
                   /\ IsShortTransition(ln) => o.created
                THEN "states" ELSE "bad"
           [] OTHER -> "bad"

\* obs after line ln is read while the parser's state is st.
Observe(o, ln, st) ==
    LET toSigma == ~startswith(ln, Hashes) /\ st = SIGMA /\ IsSymbolLine(ln)
        toArc == ~startswith(ln, Hashes) /\ st = ARC /\ IsIntLine(ln)
        idx == int(split(ln)[1])
        text == split(ln)[2]
        \* ln is decoded into a transition
        decoded == /\ toArc
                   /\ \/ IsFullTransition(ln)
                      \/ IsShortTransition(ln) /\ o.last_src # None
    IN  [ gram |-> GramNext(o, ln),
          has0 |-> o.has0 \/ (o.gram = "sigma" /\ IsSymbolLine(ln) /\ idx = 0),
          created |-> o.created \/ (o.gram = "states" /\ IsFullTransition(ln)),
          end_seen |-> o.end_seen \/ ln = HeaderEnd,
          last_src |-> IF toArc /\ IsFullTransition(ln)
                       THEN Some(Fields(ln)[1]) ELSE o.last_src,
          last_text |-> IF toSigma
                        THEN [k \in DOMAIN o.last_text \cup {idx} |->
                                 IF k = idx THEN text ELSE o.last_text[k]]
                        ELSE o.last_text,
          redefined |-> IF /\ toSigma
                           /\ idx \in DOMAIN o.last_text
                           /\ o.last_text[idx] # text
                        THEN o.redefined \cup {idx} ELSE o.redefined,
          zero_defs |-> IF toSigma /\ idx = 0 /\ o.zero_defs < 2
                        THEN o.zero_defs + 1 ELSE o.zero_defs,
          sentinels |-> o.sentinels \/ (toArc /\ IsSentinelLine(ln)),
          sources |-> IF toArc /\ IsFullTransition(ln)
                      THEN o.sources \cup {Fields(ln)[1]}
                      ELSE IF toArc /\ IsShortTransition(ln) /\ o.last_src # None
                      THEN o.sources \cup {o.last_src[1]}
                      ELSE o.sources,
          markers |-> IF toArc /\ IsAcceptingMarker(ln)
                      THEN o.markers \cup {Fields(ln)[1]} ELSE o.markers,
          dests |-> IF decoded
                    THEN o.dests \cup {Fields(ln)[Len(Fields(ln)) -
                                         (IF IsFullTransition(ln) THEN 1 ELSE 0)]}
                    ELSE o.dests,
          labels |-> IF decoded
                     THEN o.labels \cup
                          (CASE Len(Fields(ln)) = 5 -> {Fields(ln)[2], Fields(ln)[3]}
                             [] Len(Fields(ln)) = 4 -> {Fields(ln)[2]}
                             [] Len(Fields(ln)) = 3 -> {Fields(ln)[1], Fields(ln)[2]}
                             [] Len(Fields(ln)) = 2 -> {Fields(ln)[1]})
                     ELSE o.labels,
          carried |-> IF toArc /\ IsFullTransition(ln) THEN FALSE
                      ELSE o.carried \/ (/\ st = ARC
                                         /\ IsHeaderLine(ln)
                                         /\ Payload(ln) \in Vocabulary \ {PayloadStates}
                                         /\ o.last_src # None),
          last_header |-> IF IsHeaderLine(ln) THEN Some(ln) ELSE o.last_header ]

-----------------------------------------------------------------------------
(* The state machine. *)

Init ==
    /\ state = INITIAL
    /\ sigma = EmptyDict
    /\ arcs = << >>
    /\ accepting_states = {}
    /\ implied_state = None
    /\ line = << >>
    /\ n = 0
    /\ pc = "loop"
    /\ exception = ""
    /\ result = None
    /\ obs = [gram |-> "start", has0 |-> FALSE, created |-> FALSE,
              end_seen |-> FALSE, last_src |-> None, last_text |-> EmptyDict,
              redefined |-> {}, zero_defs |-> 0, sentinels |-> FALSE,
              sources |-> {}, markers |-> {}, dests |-> {}, labels |-> {},
              carried |-> FALSE, last_header |-> None]

\* The loop reads the next line, ln, of the input.
ReadLine(ln) ==
    /\ pc = "loop"
    /\ n < MaxLines
    /\ LET st == loop_body(ln, [state |-> state, sigma |-> sigma, arcs |-> arcs,
                                accepting_states |-> accepting_states,
                                implied_state |-> implied_state, exc |-> ""])
       IN  /\ state' = st.state
           /\ sigma' = st.sigma
           /\ arcs' = st.arcs
           /\ accepting_states' = st.accepting_states
           /\ implied_state' = st.implied_state
           /\ exception' = st.exc
           /\ pc' = IF st.exc = "" THEN "loop" ELSE "raised"
    /\ line' = ln
    /\ n' = n + 1
    /\ obs' = Observe(obs, ln, state)
    /\ UNCHANGED result

\* A variant of Finish: a sigma without id 0 is taken as it is.
Finish_tolerates_no_epsilon ==
    /\ pc = "loop"
    /\ IF state # END
       THEN /\ pc' = "raised"
            /\ exception' = "AssertionError"
            /\ UNCHANGED <<sigma, result>>
       ELSE /\ sigma' = del_epsilon(sigma)
            /\ result' = Some(FSTParse(multichar_symbols_of(sigma'),
                                       graphemes_of(sigma'),
                                       set(arcs),
                                       arc_states(arcs),
                                       accepting_states))
            /\ pc' = "returned"
            /\ UNCHANGED exception
    /\ UNCHANGED <<state, arcs, accepting_states, implied_state, line, n, obs>>

\* The input is exhausted: the code after the loop.
Finish ==
    /\ pc = "loop"
    /\ IF state # END
       THEN /\ pc' = "raised"
            /\ exception' = "AssertionError"
            /\ UNCHANGED <<sigma, result>>
       ELSE IF 0 \notin DOMAIN sigma
       THEN /\ pc' = "raised"
            /\ exception' = "KeyError: 0"
            /\ UNCHANGED <<sigma, result>>
       ELSE /\ sigma' = del_epsilon(sigma)
            /\ result' = Some(FSTParse(multichar_symbols_of(sigma'),
                                       graphemes_of(sigma'),
                                       set(arcs),
                                       arc_states(arcs),
                                       accepting_states))
            /\ pc' = "returned"
            /\ UNCHANGED exception
    /\ UNCHANGED <<state, arcs, accepting_states, implied_state, line, n, obs>>

Next == (\E ln \in Lines : ReadLine(ln)) \/ Finish

Spec == Init /\ [][Next]_vars


-----------------------------------------------------------------------------
(* Properties. *)

\* The line read last was passed, as integers, to parse_arc (which returned
\* or raised).
InParseArc ==
    /\ n >= 1
    /\ state = ARC
    /\ ~startswith(line, Hashes)
    /\ IsIntLine(line)
    /\ exception # "AssertionError"

\* The line read last was decoded by parse_arc into a transition.
DecodedTransition ==
    /\ InParseArc
    /\ pc = "loop"
    /\ IsFullTransition(line) \/ IsShortTransition(line)
    /\ Len(arcs) > 0

LastArc == arcs[Len(arcs)]

\* The transition a record is meant to give: (src, in, out, dest) for 5
\* fields, (src, label, dest) for 4, (in, out, dest) and (label, dest) from
\* the implied state src for 3 and 2.
Intended(f, src) ==
    CASE Len(f) = 5 -> [state |-> f[1], in_label |-> f[2], out_label |-> f[3],
                        destination |-> f[4]]
      [] Len(f) = 4 -> [state |-> f[1], in_label |-> f[2], out_label |-> f[2],
                        destination |-> f[3]]
      [] Len(f) = 3 -> [state |-> src[1], in_label |-> f[1], out_label |-> f[2],
                        destination |-> f[3]]
      [] Len(f) = 2 -> [state |-> src[1], in_label |-> f[1], out_label |-> f[1],
                        destination |-> f[2]]

\* C1: the Arc stored for a transition-creating record has, under its four
\* accessors, the source state, input label, output label and destination
\* state the record gives.
C1_ArcAccessors ==
    DecodedTransition =>
        LastArc = Intended(Fields(line), obs.last_src)

\* C2: the state set of a result is the union of the source states of all
\* transitions decoded and the accepting states marked; an accepting state
\* with no outgoing transition is a member.
C2_StatesAreSourcesAndAccepting ==
    pc = "returned" =>
        LET p == result[1]
        IN  /\ FSTParse_states(p) = obs.sources \cup obs.markers
            /\ FSTParse_states(p) = {a.state : a \in p.arcs} \cup p.accepting_states
            /\ p.accepting_states = obs.markers

\* C2's case: a result with transitions and an accepting state that is the
\* source of none.
C2_Witness ==
    /\ pc = "returned"
    /\ result[1].arcs # {}
    /\ \E s \in result[1].accepting_states :
          /\ \A a \in result[1].arcs : a.state # s
          /\ s \in FSTParse_states(result[1])

\* C3: no line of an input that follows the grammar makes the parse fail, and
\* a complete such input (through ##end##, id 0 among its symbols) returns a
\* result.
C3_WellFormedInputParses ==
    /\ (pc = "raised" /\ exception \notin {"AssertionError", "KeyError: 0"})
          => obs.gram = "bad"
    /\ (pc # "loop" /\ obs.gram = "end" /\ obs.has0) => pc = "returned"

\* C4: a 2- or 3-field record decoded when no transition-creating 4- or
\* 5-field record was decoded before it makes the parse fail, with no result.
C4_ShortRecordWithoutImpliedStateFails ==
    (InParseArc /\ IsShortTransition(line) /\ obs.last_src = None) =>
        /\ pc = "raised"
        /\ exception = "ValueError: No implied state"
        /\ result = None

\* C4's case: the record follows an accepting-state record, which sets no
\* implied state.
C4_Witness ==
    /\ InParseArc
    /\ IsShortTransition(line)
    /\ obs.last_src = None
    /\ obs.markers # {}
    /\ pc = "raised"

\* C5: the implied state is the source of the most recent transition-creating
\* 4- or 5-field record; a 2- or 3-field record decoded after one succeeds,
\* gives a transition from that source and leaves the implied state as it was.
C5_ShortRecordTakesImpliedSource ==
    /\ pc = "loop" => implied_state = obs.last_src
    /\ (InParseArc /\ IsShortTransition(line) /\ obs.last_src # None) =>
          /\ pc = "loop"
          /\ Len(arcs) > 0
          /\ LastArc.state = obs.last_src[1]
          /\ implied_state = obs.last_src

\* C5's case: a 2- or 3-field record decoded after an accepting-state record
\* that followed the transition-creating one.
C5_Witness ==
    /\ DecodedTransition
    /\ IsShortTransition(line)
    /\ obs.markers # {}
    /\ obs.last_src # None
    /\ obs.last_src[1] \notin obs.markers
    /\ LastArc.state = obs.last_src[1]

\* C6: id 0 is in neither partition, nor in the sigma, of a result.
C6_NoEpsilonInResult ==
    pc = "returned" =>
        /\ 0 \notin DOMAIN result[1].multichar_symbols
        /\ 0 \notin DOMAIN result[1].graphemes
        /\ 0 \notin DOMAIN FSTParse_sigma(result[1])

\* C6's case: two symbol lines bound id 0, and other symbols are left.
C6_Witness ==
    /\ pc = "returned"
    /\ obs.zero_defs = 2
    /\ DOMAIN FSTParse_sigma(result[1]) # {}

\* C7: the ids of the parsed sigma other than 0 are split between the two
\* partitions: an id is a grapheme exactly when its text has length 1, a
\* multichar symbol exactly when it is longer, never both and never neither.
C7_PartitionByLength ==
    pc = "returned" =>
        LET gr == result[1].graphemes
            mc == result[1].multichar_symbols
            ids == DOMAIN obs.last_text \ {0}
        IN  /\ DOMAIN gr \cup DOMAIN mc = ids
            /\ DOMAIN gr \cap DOMAIN mc = {}
            /\ \A k \in ids :
                  /\ k \in DOMAIN gr <=> Len(obs.last_text[k]) = 1
                  /\ k \in DOMAIN mc <=> Len(obs.last_text[k]) > 1

\* C7's case: a result with a grapheme and a multichar symbol.
C7_Witness ==
    /\ pc = "returned"
    /\ DOMAIN result[1].graphemes # {}
    /\ DOMAIN result[1].multichar_symbols # {}

\* C8: a sentinel line read in the states section changes nothing but the
\* loop's position: no transition, no accepting state, the implied state, the
\* symbols and the parser state as before, no failure.  The lines that follow
\* are then parsed from the same state with or without it.
C8_SentinelChangesNothing ==
    [][(pc = "loop" /\ state = ARC /\ n' = n + 1 /\ IsSentinelLine(line'))
          => UNCHANGED <<state, sigma, arcs, accepting_states, implied_state,
                         pc, exception, result>>]_vars

\* C8's case: a 2- or 3-field record decoded right after a sentinel, from the
\* implied state set before the sentinel.
C8_Witness ==
    /\ DecodedTransition
    /\ IsShortTransition(line)
    /\ obs.sentinels
    /\ Len(arcs) = 2

\* C9: a result is returned only with the parser in END after the last line,
\* and so only for an input that has an ##end## header.
C9_ResultOnlyAfterEndHeader ==
    pc = "returned" => (state = END /\ obs.end_seen)

\* C10: the alphabet of a result maps every id other than 0 to the text of
\* the last symbol line that gave the id, and holds nothing else.
C10_LastSymbolLineWins ==
    pc = "returned" =>
        FSTParse_sigma(result[1]) =
            [k \in DOMAIN obs.last_text \ {0} |-> obs.last_text[k]]

\* C10's case: an id other than 0 was given twice, with different texts.
C10_Witness ==
    /\ pc = "returned"
    /\ obs.redefined \ {0} # {}


\* C11: a header line whose payload is not in the vocabulary makes the parse
\* fail, whatever the parser state, and no result is returned.
C11_UnknownHeaderFails ==
    (n >= 1 /\ IsHeaderLine(line) /\ Payload(line) \notin Vocabulary) =>
        /\ pc = "raised"
        /\ exception = "KeyError: header"
        /\ result = None

\* C11's case: the unknown header is met in the states section, after a
\* transition was decoded.
C11_Witness ==
    /\ n >= 1
    /\ IsHeaderLine(line)
    /\ Payload(line) \notin Vocabulary
    /\ state = ARC
    /\ Len(arcs) > 0
    /\ pc = "raised"

\* C12: in the states section, a line of integers whose number is not 2, 3,
\* 4 or 5 makes the parse fail and adds no transition and no accepting state.
C12_OtherArityFails ==
    [][(/\ pc = "loop"
        /\ state = ARC
        /\ n' = n + 1
        /\ ~IsHeaderLine(line')
        /\ IsIntLine(line')
        /\ Len(Fields(line')) \notin 2..5)
          => /\ pc' = "raised"
             /\ exception' # ""
             /\ result' = None
             /\ UNCHANGED <<arcs, accepting_states, implied_state>>]_vars

\* C12's case: a line of 6 integers after a transition and an accepting state.
C12_Witness ==
    /\ InParseArc
    /\ Len(Fields(line)) = 6
    /\ Len(arcs) > 0
    /\ accepting_states # {}
    /\ pc = "raised"
    /\ exception = "UnboundLocalError: src"


\* C13: a 4-field record with label or dest -1 adds its src to the accepting
\* states and changes nothing else, the implied state included; a 4-field
\* record with neither -1 appends one transition from its src and sets the
\* implied state to src.
C13_FourFieldRecord ==
    [][(/\ pc = "loop"
        /\ state = ARC
        /\ n' = n + 1
        /\ IsIntLine(line')
        /\ Len(Fields(line')) = 4)
          => LET f == Fields(line')
             IN  IF f[2] = -1 \/ f[3] = -1
                 THEN /\ accepting_states' = accepting_states \cup {f[1]}
                      /\ UNCHANGED <<state, sigma, arcs, implied_state, pc,
                                     exception, result>>
                 ELSE /\ Len(arcs') = Len(arcs) + 1
                      /\ SubSeq(arcs', 1, Len(arcs)) = arcs
                      /\ arcs'[Len(arcs')].state = f[1]
                      /\ implied_state' = Some(f[1])
                      /\ UNCHANGED <<state, sigma, accepting_states, pc,
                                     exception, result>>]_vars

\* C13's case: a record with label -1 and dest 2 was read after a transition
\* from another state, whose source is still the implied state.
C13_Witness ==
    /\ InParseArc
    /\ pc = "loop"
    /\ IsAcceptingMarker(line)
    /\ Fields(line)[3] # -1
    /\ Fields(line)[1] \in accepting_states
    /\ Len(arcs) = 1
    /\ implied_state = Some(arcs[1].state)
    /\ implied_state # Some(Fields(line)[1])


\* C14: a line that begins with ## and does not end with ## is no header
\* line: reading it does not switch the parser state.
C14_HeaderNeedsBothDelimiters ==
    [][(/\ pc = "loop"
        /\ n' = n + 1
        /\ startswith(line', Hashes)
        /\ ~endswith(line', Hashes))
          => state' = state]_vars


\* C15, as claimed: the destination state of every transition of a result is
\* a member of its state set.
C15_DestinationsAreStates ==
    pc = "returned" => obs.dests \subseteq FSTParse_states(result[1])

\* C15, amended: the source state of every transition is a member of the
\* state set, and a destination state is a member exactly when it is also the
\* source of a transition or an accepting state.
C15_DestinationIsStateIffSourceOrAccepting ==
    pc = "returned" =>
        /\ obs.sources \subseteq FSTParse_states(result[1])
        /\ \A d \in obs.dests :
              d \in FSTParse_states(result[1]) <=> d \in obs.sources \cup obs.markers

\* C15's case: a result with a destination that is a state and one that is not.
C15_Witness ==
    /\ pc = "returned"
    /\ \E d \in obs.dests : d \in FSTParse_states(result[1])
    /\ \E d \in obs.dests : d \notin FSTParse_states(result[1])

\* C16, as claimed: every input or output symbol id other than 0 of a
\* transition of a result is a key of the result's alphabet.
C16_LabelsAreSymbols ==
    pc = "returned" => obs.labels \ {0} \subseteq DOMAIN FSTParse_sigma(result[1])

\* C16, amended: such an id is a key of the result's alphabet exactly when a
\* symbol line gave it; the labels are not checked against the alphabet.
C16_LabelIsSymbolIffDefined ==
    pc = "returned" =>
        \A l \in obs.labels \ {0} :
            l \in DOMAIN FSTParse_sigma(result[1]) <=> l \in DOMAIN obs.last_text

\* C16's case: a result with a label that is a symbol and one that is not.
C16_Witness ==
    /\ pc = "returned"
    /\ \E l \in obs.labels \ {0} : l \in DOMAIN FSTParse_sigma(result[1])
    /\ \E l \in obs.labels \ {0} : l \notin DOMAIN FSTParse_sigma(result[1])

\* C17: a non-header line read in state INITIAL, PROPS or END has no effect,
\* whatever its text.
C17_IgnoredSectionsHaveNoEffect ==
    [][(/\ pc = "loop"
        /\ state \in {INITIAL, PROPS, END}
        /\ n' = n + 1
        /\ ~IsHeaderLine(line'))
          => UNCHANGED <<state, sigma, arcs, accepting_states, implied_state,
                         pc, exception, result>>]_vars

\* C18: the implied state is None at the start and changes only when a
\* transition-creating 4- or 5-field record is decoded, to that record's src;
\* no header and no other line resets it.
C18_ImpliedStateSetOnlyByFullRecords ==
    /\ implied_state = None
    /\ [][implied_state' # implied_state
            => /\ pc = "loop"
               /\ state = ARC
               /\ n' = n + 1
               /\ IsFullTransition(line')
               /\ implied_state' = Some(Fields(line')[1])]_vars

\* C18's case: a 2- or 3-field record decoded in a later states section, from
\* the implied state set before the section was left.
C18_Witness ==
    /\ DecodedTransition
    /\ IsShortTransition(line)
    /\ obs.carried
    /\ implied_state = obs.last_src
    /\ LastArc.state = obs.last_src[1]

\* C19: the parse of an input none of whose symbol lines gives id 0 fails,
\* with no result.
C19_NoEpsilonFails ==
    (pc # "loop" /\ obs.zero_defs = 0) => (pc = "raised" /\ result = None)

\* C19's case: an input that follows the grammar through ##end##, with
\* symbols, none of them id 0, fails when id 0 is removed.
C19_Witness ==
    /\ pc = "raised"
    /\ exception = "KeyError: 0"
    /\ obs.gram = "end"
    /\ obs.zero_defs = 0
    /\ DOMAIN sigma # {}

\* C20: after a header line of the vocabulary the parser state is the one
\* of its payload, whatever the state before; and a result is returned only
\* if the last header line of the input is ##end##.
C20_StateFollowsLastHeader ==
    /\ (pc = "loop" /\ n >= 1 /\ IsHeaderLine(line) /\ Payload(line) \in Vocabulary)
          => state = header_dict[Payload(line)]
    /\ pc = "returned" => obs.last_header = Some(HeaderEnd)

====
